---- MODULE Spec2Model ----
(***************************************************************************)
(* Model of audio2yt_app.py: a Streamlit script that is re-executed from   *)
(* top to bottom on every user interaction.  One script run is one atomic  *)
(* step (the script is single-threaded and blocking).  The state that      *)
(* survives a run is st.session_state, the widget state, the two           *)
(* st.cache_data caches and the environment; `last` records what the last  *)
(* run called and rendered.                                                *)
(***************************************************************************)
EXTENDS Integers, Sequences, FiniteSets, TLC

VARIABLES env, uploaded, session, wtx, picked, txCache, thumbCache, last

vars == <<env, uploaded, session, wtx, picked, txCache, thumbCache, last>>

----------------------------------------------------------------------------
(* Bounds of the model *)

NumFiles == 3       \* distinct audio files the user has to upload

(* Program constants *)

ThumbCount == 3     \* generate_thumbnails(count=3)
PromptLen == 200    \* transcript[:200]

----------------------------------------------------------------------------
(* Values: Python None, a missing key, and strings abstracted to           *)
(* (source, length).  src > 0 is the audio content a text was transcribed  *)
(* from, src = -1 an exception message, src = -2 text typed by the user,   *)
(* src = -3 the identifier returned by the upload.                         *)

None == [kind |-> "None", src |-> 0, len |-> 0]
Absent == [kind |-> "absent", src |-> 0, len |-> 0]
Str(s, n) == [kind |-> "str", src |-> IF n = 0 THEN 0 ELSE s, len |-> n]

Min(a, b) == IF a < b THEN a ELSE b

\* Python truthiness of a value that is None or a str
Truthy(v) == v.kind = "str" /\ v.len > 0

\* v[:k]
Slice(v, k) == Str(v.src, Min(v.len, k))

\* raw.strip(): raw text is a core of len characters between lead and trail
\* whitespace characters
Strip(raw) == Str(raw.src, raw.len)

NoFile == [name |-> 0, content |-> 0]
\* file k has its own content; files 2j-1 and 2j carry the same name, as
\* two takes saved under one file name do
NameOf(k) == (k + 1) \div 2
Files == {[name |-> NameOf(k), content |-> k] : k \in 1..NumFiles}
Names == {f.name : f \in Files}

\* length of the speech in audio content c
TextLen(c) == c * 120

ErrMsgs == {Str(-1, 0), Str(-1, 9)}   \* str(e), possibly empty
Edited == Str(-2, 5)
VideoId == Str(-3, 11)

NoRaw == [src |-> 0, len |-> 0, lead |-> 0, trail |-> 0]

\* what model.transcribe(...)["text"] can be for file f
\* (silence comes out as white space, speech with a leading blank)
RawTexts(f) ==
  { [src |-> 0, len |-> 0, lead |-> 1, trail |-> 1],
    [src |-> f.content, len |-> TextLen(f.content), lead |-> 1, trail |-> 0] }

\* outcomes of the external calls of one run
TxOutcomes(f) ==
  {[ok |-> TRUE, raw |-> t, msg |-> None] : t \in RawTexts(f)}
    \cup {[ok |-> FALSE, raw |-> NoRaw, msg |-> m] : m \in ErrMsgs}

\* upload: the identifier comes back, the token file is missing, or the API
\* call raises.  The encoder and the upload sit behind their buttons, so
\* their outcomes are drawn only in a run that such a click triggered.
Outcomes(f, trig) ==
  [tx : TxOutcomes(f), thumbs : BOOLEAN,
   build : IF trig = "render" THEN BOOLEAN ELSE {TRUE},
   upload : IF trig = "upload" THEN {"id", "no_token", "api_error"}
            ELSE {"id"}]

NoImg == [p |-> Absent, idx |-> -1]
Img(p, i) == [p |-> p, idx |-> i]

----------------------------------------------------------------------------
(* Streamlit primitives *)

\* st.button: true only in the run triggered by a click on that button
Button(name, trig) == trig = name

\* st.radio(options=["Use this"]): a radio with a single option always
\* returns that option, a non-empty string
Radio(i) == Str(-4, 8)

\* for i, ... in enumerate(zip(cols, thumbs)): if st.radio(...): chosen_idx = i
RECURSIVE ChosenLoop(_, _, _)
ChosenLoop(i, n, chosen) ==
  IF i >= n THEN chosen
  ELSE ChosenLoop(i + 1, n, IF Truthy(Radio(i)) THEN i ELSE chosen)

ChosenIdx(n) == ChosenLoop(0, n, 0)

----------------------------------------------------------------------------
(* External-call wrappers *)

\* @st.cache_data transcribe_with_local_whisper(wav_path): a cached return
\* value for the path is returned without running the model; exceptions are
\* not cached
transcribe_with_local_whisper(txc, f, o) ==
  IF txc[f.name] # Absent
    THEN [ok |-> TRUE, val |-> txc[f.name], msg |-> None, txc |-> txc,
          invoked |-> FALSE]
  ELSE IF o.tx.ok
    THEN [ok |-> TRUE, val |-> Strip(o.tx.raw), msg |-> None,
          txc |-> [txc EXCEPT ![f.name] = Strip(o.tx.raw)], invoked |-> TRUE]
  ELSE [ok |-> FALSE, val |-> None, msg |-> o.tx.msg, txc |-> txc,
        invoked |-> TRUE]

\* @st.cache_data generate_thumbnails(prompt): the list of image paths, or
\* an exception of the image API
generate_thumbnails(thc, prompt, o) ==
  IF prompt \in thc
    THEN [ok |-> TRUE, thc |-> thc, invoked |-> FALSE]
  ELSE IF o.thumbs
    THEN [ok |-> TRUE, thc |-> thc \cup {prompt}, invoked |-> TRUE]
  ELSE [ok |-> FALSE, thc |-> thc, invoked |-> TRUE]

Thumbs(prompt) == [i \in 1..ThumbCount |-> Img(prompt, i - 1)]

\* subprocess.run(cmd, check=True)
build_video(o) == o.build

\* RuntimeError when the token file is missing, else the id of the insert
youtube_uploader(o) == o.upload = "id"

----------------------------------------------------------------------------
(* The script, bottom-up.  r is the state of the run in progress.          *)

Call(r, fn) == [r EXCEPT !.calls = Append(@, fn)]
Show(r, els) == [r EXCEPT !.ui = @ \cup els]
Raise(r, fn) == [r EXCEPT !.raised = @ \cup {fn}]

\* Step 4, lines 298-308
UploadStep(r, trig, o) ==
  LET r1 == Show(r, {"upload_button"})
  IN IF ~Button("upload", trig) THEN r1
     ELSE LET r2 == [Call(r1, "youtube_uploader") EXCEPT !.desc = r1.wtx]
          IN IF youtube_uploader(o)
               THEN [Show(r2, {"uploaded"}) EXCEPT !.vid = VideoId]
               ELSE Show(Raise(r2, "youtube_uploader"), {"upload_failed"})

\* a build step that reports the encoder error but goes on to the preview
RenderStepNoStop(r, img, trig, o) ==
  LET r1 == Show(r, {"render_button"})
  IN IF ~Button("render", trig) THEN r1
     ELSE LET r2 == [Call(r1, "build_video") EXCEPT !.image = img]
              r3 == IF build_video(o) THEN r2
                    ELSE Show(Raise(r2, "build_video"), {"ffmpeg_error"})
          IN UploadStep(Show(r3, {"video", "saved_video"}), trig, o)

\* Step 3, lines 283-296
RenderStep(r, img, trig, o) ==
  LET r1 == Show(r, {"render_button"})
  IN IF ~Button("render", trig) THEN r1
     ELSE LET r2 == [Call(r1, "build_video") EXCEPT !.image = img]
          IN IF ~build_video(o)
               THEN Show(Raise(r2, "build_video"), {"ffmpeg_error"})
               ELSE UploadStep(Show(r2, {"video", "saved_video"}), trig, o)

\* Step 2, lines 272-280; an exception of generate_thumbnails is not caught
\* and ends the run with the framework's exception box
ThumbStep(r, trig, o) ==
  LET prompt == Slice(r.sess.transcript, PromptLen)
      g == generate_thumbnails(r.thc, prompt, o)
      r1 == [Call(r, "generate_thumbnails") EXCEPT !.prompt = prompt,
                                                   !.thc = g.thc]
  IN IF ~g.ok
       THEN Show(Raise(r1, "generate_thumbnails"), {"exception"})
       ELSE LET thumbs == Thumbs(prompt)
                chosen_thumb == thumbs[ChosenIdx(Len(thumbs)) + 1]
            IN RenderStep(Show(r1, {"radios", "images"}), chosen_thumb,
                          trig, o)

\* lines 244-247: the two session variables are created on first use
InitSession(sess) ==
  [transcript |-> IF sess.transcript = Absent THEN None ELSE sess.transcript,
   transcription_error |-> IF sess.transcription_error = Absent THEN None
                           ELSE sess.transcription_error]

\* a do_transcription whose except branch forgets to reset the transcript
SetTranscriptionKeepStale(sess, t) ==
  IF t.ok THEN [transcript |-> t.val, transcription_error |-> None]
  ELSE [sess EXCEPT !.transcription_error = t.msg]

\* lines 250-256: what do_transcription writes, given the result t of the call
SetTranscription(sess, t) ==
  IF t.ok THEN [transcript |-> t.val, transcription_error |-> None]
  ELSE [transcript |-> None, transcription_error |-> t.msg]

\* lines 249-256
do_transcription(r, f, o) ==
  LET t == transcribe_with_local_whisper(r.txc, f, o)
      r1 == Call(r, "do_transcription")
      r2 == IF t.invoked THEN Call(r1, "whisper") ELSE r1
      r3 == IF t.ok THEN r2 ELSE Raise(r2, "do_transcription")
  IN [r3 EXCEPT !.sess = SetTranscription(r.sess, t), !.txc = t.txc]

\* an automatic start that looks at the transcript only
NeedsTranscriptionIgnoringError(sess) == sess.transcript = None

\* line 258
NeedsTranscription(sess) ==
  sess.transcript = None /\ sess.transcription_error = None

\* a test for "is not None" in place of the truth value
HasTranscriptNotNone(sess) == sess.transcript # None

\* line 261: the truth value of the transcript
HasTranscript(sess) == Truthy(sess.transcript)

\* st.text_area(value=..., key="tx"): the widget keeps its own state under
\* the key; value only seeds it
TextArea(r, value) ==
  LET w == IF r.wtx = Absent THEN value ELSE r.wtx
  IN [Show(r, {"tx"}) EXCEPT !.wtx = w, !.shownTx = w]

\* Step 1, lines 244-269
TranscriptionStep(r, f, trig, o) ==
  LET r1 == [r EXCEPT !.sess = InitSession(r.sess)]
      r2 == IF NeedsTranscription(r1.sess) THEN do_transcription(r1, f, o)
            ELSE r1
  IN IF HasTranscript(r2.sess)
       THEN ThumbStep(TextArea(r2, r2.sess.transcript), trig, o)
       ELSE LET r3 == [Show(r2, {"failed", "retry_button"})
                         EXCEPT !.failedMsg = r2.sess.transcription_error]
            IN IF Button("retry", trig) THEN do_transcription(r3, f, o)
               ELSE r3

\* a check that lets the run go on without the encoder
ensure_ffmpeg_skipped(e) == TRUE

\* lines 81-91: whether the run goes on
ensure_ffmpeg(e) == e.ffmpeg

\* lines 62-65: whether the run goes on
api_key_set(e) == e.key

\* the whole script, lines 61-308
Script(r, e, f, trig, o) ==
  IF ~api_key_set(e) THEN Show(r, {"key_error"})
  ELSE IF ~ensure_ffmpeg(e) THEN Show(r, {"title", "ffmpeg_missing"})
  ELSE LET r1 == Show(r, {"title", "uploader"})
       IN IF f = NoFile THEN r1
          ELSE TranscriptionStep(Show(r1, {"saved"}), f, trig, o)

----------------------------------------------------------------------------
(* State machine *)

EmptySession == [transcript |-> Absent, transcription_error |-> Absent]

NoRun ==
  [trigger |-> "none", file |-> NoFile, envOk |-> FALSE, pre |-> EmptySession,
   ui |-> {}, calls |-> <<>>, raised |-> {}, failedMsg |-> Absent,
   prompt |-> Absent, image |-> NoImg, desc |-> Absent, vid |-> Absent,
   shownTx |-> Absent]

Init ==
  /\ env \in [key : BOOLEAN, ffmpeg : BOOLEAN]
  /\ uploaded = NoFile
  /\ session = EmptySession
  /\ wtx = Absent
  /\ picked = -1
  /\ txCache = [n \in Names |-> Absent]
  /\ thumbCache = {}
  /\ last = NoRun

\* one execution of the script: trig is the widget whose change caused it,
\* f the file in the uploader, sess and w the session and widget state it
\* starts from
Run(trig, f, sess, w) ==
  \E o \in Outcomes(f, trig) :
    LET r0 == [sess |-> sess, wtx |-> w, txc |-> txCache, thc |-> thumbCache,
               ui |-> {}, calls |-> <<>>, raised |-> {}, failedMsg |-> Absent,
               prompt |-> Absent, image |-> NoImg, desc |-> Absent,
               vid |-> Absent, shownTx |-> Absent]
        r == Script(r0, env, f, trig, o)
    IN /\ session' = r.sess
       \* the state of a widget that was not rendered in the run is dropped
       /\ wtx' = IF "tx" \in r.ui THEN r.wtx ELSE Absent
       /\ txCache' = r.txc
       /\ thumbCache' = r.thc
       /\ uploaded' = f
       /\ last' = [trigger |-> trig, file |-> f,
                   envOk |-> (env.key /\ env.ffmpeg), pre |-> sess,
                   ui |-> r.ui, calls |-> r.calls, raised |-> r.raised,
                   failedMsg |-> r.failedMsg, prompt |-> r.prompt,
                   image |-> r.image, desc |-> r.desc, vid |-> r.vid,
                   shownTx |-> r.shownTx]
       /\ UNCHANGED env

\* the browser opens or reloads the page: a new session, same caches
Reload ==
  /\ Run("reload", NoFile, EmptySession, Absent)
  /\ picked' = -1

\* a rerun that no widget of the script caused
Rerun ==
  /\ last.trigger # "none"
  /\ Run("rerun", uploaded, session, wtx)
  /\ UNCHANGED picked

UploadFile(f) ==
  /\ "uploader" \in last.ui
  /\ f # uploaded
  /\ Run("file", f, session, wtx)
  /\ UNCHANGED picked

RemoveFile ==
  /\ "uploader" \in last.ui
  /\ uploaded # NoFile
  /\ Run("file", NoFile, session, wtx)
  /\ UNCHANGED picked

EditTranscript ==
  /\ "tx" \in last.ui
  /\ Run("tx", uploaded, session, Edited)
  /\ UNCHANGED picked

\* the user clicks the radio under thumbnail i
SelectThumb(i) ==
  /\ "radios" \in last.ui
  /\ picked' = i
  /\ Run("radio", uploaded, session, wtx)

ClickRetry ==
  /\ "retry_button" \in last.ui
  /\ Run("retry", uploaded, session, wtx)
  /\ UNCHANGED picked

ClickRender ==
  /\ "render_button" \in last.ui
  /\ Run("render", uploaded, session, wtx)
  /\ UNCHANGED picked

ClickUpload ==
  /\ "upload_button" \in last.ui
  /\ Run("upload", uploaded, session, wtx)
  /\ UNCHANGED picked

\* the environment between two runs: load_dotenv picks up a key that was
\* added to .env (it never removes one), the encoder is installed or removed
EnvChange ==
  /\ env' \in [key : BOOLEAN, ffmpeg : BOOLEAN] \ {env}
  /\ env.key => env'.key
  /\ UNCHANGED <<uploaded, session, wtx, picked, txCache, thumbCache, last>>

Next ==
  \/ Reload
  \/ Rerun
  \/ \E f \in Files : UploadFile(f)
  \/ RemoveFile
  \/ EditTranscript
  \/ \E i \in 0..(ThumbCount - 1) : SelectThumb(i)
  \/ ClickRetry
  \/ ClickRender
  \/ ClickUpload
  \/ EnvChange

Spec == Init /\ [][Next]_vars

----------------------------------------------------------------------------
(* Properties.  They speak of the last run through `last`. *)

Called(fn) == \E i \in 1..Len(last.calls) : last.calls[i] = fn
Count(fn) == Cardinality({i \in 1..Len(last.calls) : last.calls[i] = fn})
Raised(fn) == fn \in last.raised
Shown(el) == el \in last.ui

\* a run that got past the environment checks with a file in the uploader
PipelineRun == last.trigger # "none" /\ last.envOk /\ last.file # NoFile

\* C1: with every external call succeeding, the run triggered by the click
\* on 'Upload to YouTube' (the button is offered only after a successful
\* render of an uploaded file) calls youtube_uploader and shows the
\* identifier it returned.
C1_UploadClickUploads ==
  (PipelineRun /\ last.trigger = "upload" /\ last.raised = {})
    => (Called("youtube_uploader") /\ Shown("uploaded") /\ last.vid = VideoId)

\* C2: when the user has selected thumbnail i and clicks 'Render MP4',
\* build_video gets thumbs[i] as its image.
C2_RendersPickedThumb ==
  (last.trigger = "render" /\ Called("build_video") /\ picked >= 0)
    => last.image = Thumbs(last.prompt)[picked + 1]

\* the run before this step was a click on Retry in the failed state and
\* its transcription call returned
RetrySucceeded ==
  /\ PipelineRun
  /\ last.trigger = "retry"
  /\ last.pre.transcription_error.kind = "str"
  /\ Called("do_transcription")
  /\ ~Raised("do_transcription")

\* C3: after a failed transcription, a click on Retry whose transcription
\* call succeeds leaves the failed state: transcript is set, the error is
\* None, and the following run of the script shows the transcript and goes
\* on to thumbnail generation instead of showing the failure again.
C3_RetryRecovers ==
  [][RetrySucceeded =>
       /\ session.transcript # None
       /\ session.transcription_error = None
       /\ (env' = env /\ PipelineRun' /\ last'.trigger # "reload")
            => (/\ "tx" \in last'.ui
                /\ "failed" \notin last'.ui
                /\ \E i \in 1..Len(last'.calls) :
                      last'.calls[i] = "generate_thumbnails")]_vars

C5_StepOrder ==
  /\ Called("generate_thumbnails") =>
       /\ Truthy(session.transcript)
       /\ Truthy(last.prompt)
  /\ \A j \in 1..Len(last.calls) :
       last.calls[j] = "build_video" =>
         /\ \E i \in 1..(j - 1) : last.calls[i] = "generate_thumbnails"
         /\ ~Raised("generate_thumbnails")
  /\ \A k \in 1..Len(last.calls) :
       last.calls[k] = "youtube_uploader" =>
         /\ \E j \in 1..(k - 1) : last.calls[j] = "build_video"
         /\ ~Raised("build_video")

C5_Witness ==
  /\ Called("build_video")
  /\ ~Raised("build_video")
  /\ Shown("video")

\* C6: a run without the API key or without the encoder shows an error and
\* stops before the file uploader: it makes no external call and leaves the
\* session variables as they were.
C6_EnvCheckStops ==
  (last.trigger # "none" /\ ~last.envOk) =>
    /\ Shown("key_error") \/ Shown("ffmpeg_missing")
    /\ ~Shown("uploader")
    /\ last.calls = <<>>
    /\ session = last.pre

C6_Witness ==
  /\ last.trigger = "rerun"
  /\ ~last.envOk
  /\ Shown("ffmpeg_missing")
  /\ last.file # NoFile
  /\ session.transcript.kind = "str"

\* C7: the automatic transcription starts only in a run that finds both
\* transcript and transcription_error None; after a failure only a run
\* triggered by 'Retry Transcription' transcribes again; no run makes more
\* than one transcription call.
C7_OneTranscriptionPerClick ==
  /\ Count("do_transcription") <= 1
  /\ Count("whisper") <= 1
  /\ (Called("do_transcription") /\ last.trigger # "retry") =>
       /\ last.pre.transcript \in {None, Absent}
       /\ last.pre.transcription_error \in {None, Absent}
  /\ (last.pre.transcription_error.kind = "str" /\ last.trigger # "retry")
       => ~Called("do_transcription")

C7_Witness ==
  /\ PipelineRun
  /\ last.trigger = "file"
  /\ last.pre.transcription_error.kind = "str"
  /\ ~Called("do_transcription")
  /\ Shown("failed")

\* C8: the transcript of the session is the transcription of the file that
\* is in the uploader: what the run shows and uses as the thumbnail prompt
\* comes from the current file, and an error recorded for another file does
\* not stand in the way.
C8_TranscriptOfCurrentFile ==
  PipelineRun =>
    /\ Truthy(session.transcript) =>
         session.transcript.src = last.file.content
    /\ last.prompt # Absent => last.prompt.src = last.file.content

\* C9: when the page shows 'Transcription failed' with the retry button,
\* transcription_error is not None.
C9_FailureHasMessage ==
  Shown("failed") => last.failedMsg.kind = "str"

\* C10: transcript and transcription_error are never both set; a call of
\* do_transcription sets exactly one and resets the other; without such a
\* call a run leaves them alone (apart from creating them as None).
C10_NotBoth ==
  /\ ~(session.transcript.kind = "str"
         /\ session.transcription_error.kind = "str")
  /\ Called("do_transcription") =>
       (session.transcript.kind = "str")
         # (session.transcription_error.kind = "str")
  /\ ~Called("do_transcription") =>
       session = IF PipelineRun THEN InitSession(last.pre) ELSE last.pre

C10_Witness ==
  /\ last.trigger = "retry"
  /\ last.pre.transcript.kind = "str"
  /\ Raised("do_transcription")
  /\ session.transcript = None

====
